---- MODULE Spec2Model ----
(***************************************************************************)
(* Model of dbt's `build` command (cmd/build.go): splitting the command    *)
(* line into targets and build flags, label normalisation, the build       *)
(* configuration name, staging of BUILD.go files, the three generator      *)
(* runs and the hand-over to ninja.                                        *)
(*                                                                         *)
(* A Go string is a sequence of one-character strings, so that prefix,     *)
(* suffix, trimming, splitting and joining are computed on characters.     *)
(***************************************************************************)
EXTENDS Integers, Sequences, FiniteSets, TLC

VARIABLES
    args,             \* os.Args after "build": the raw arguments
    workingDir,       \* util.GetWorkingDir()
    verbose,          \* log.Verbose
    moduleRoots,      \* directories of the file system that are module roots
    modules,          \* module.GetAllModulePaths: name -> [buildFiles, rules]
    declaredFlags,    \* names in core.BuildFlags once the definitions are loaded
    stagingTree,      \* files below <buildDir>/buildfiles
    outputTree,       \* files below <buildDir>/output
    pc,               \* position of runBuild
    info,             \* the buildInfo value
    availableTargets, \* runBuild's availableTargets
    availableFlags,   \* runBuild's availableFlags
    printed,          \* what runBuild and runGenerator printed with fmt.Print*
    failure,          \* the log.Fatal message that ended the run, "" if none
    trace             \* child processes started and files written, in order

vars == << args, workingDir, verbose, moduleRoots, modules, declaredFlags,
           stagingTree, outputTree, pc, info, availableTargets,
           availableFlags, printed, failure, trace >>

(***************************************************************************)
(* Bounds of the model.                                                    *)
(***************************************************************************)
MaxArgs == 2

MaxDecls == 2

MaxFlags == 3

(***************************************************************************)
(* Go strings.                                                             *)
(***************************************************************************)
\* byte value of a character (the characters the model uses)
Ord(c) ==
    CASE c = "#" -> 35
      [] c = "-" -> 45
      [] c = "." -> 46
      [] c = "/" -> 47
      [] c = "0" -> 48
      [] c = "1" -> 49
      [] c = "2" -> 50
      [] c = "=" -> 61
      [] c = "_" -> 95
      [] c = "a" -> 97
      [] c = "b" -> 98
      [] c = "c" -> 99
      [] c = "f" -> 102
      [] c = "g" -> 103
      [] c = "h" -> 104
      [] c = "m" -> 109
      [] c = "n" -> 110
      [] c = "p" -> 112
      [] c = "q" -> 113
      [] c = "w" -> 119
      [] c = "x" -> 120
      [] c = "y" -> 121
      [] c = "z" -> 122

HasPrefix(s, prefix) ==
    /\ Len(prefix) <= Len(s)
    /\ SubSeq(s, 1, Len(prefix)) = prefix

HasSuffix(s, suffix) ==
    /\ Len(suffix) <= Len(s)
    /\ SubSeq(s, Len(s) - Len(suffix) + 1, Len(s)) = suffix

TrimPrefix(s, prefix) ==
    IF HasPrefix(s, prefix) THEN SubSeq(s, Len(prefix) + 1, Len(s)) ELSE s

TrimSuffix(s, suffix) ==
    IF HasSuffix(s, suffix) THEN SubSeq(s, 1, Len(s) - Len(suffix)) ELSE s

\* strings.TrimLeft(s, "/"): every leading '/' removed
RECURSIVE TrimLeftSlash(_)
TrimLeftSlash(s) ==
    IF s # << >> /\ Head(s) = "/" THEN TrimLeftSlash(Tail(s)) ELSE s

Contains(s, c) == \E i \in 1..Len(s) : s[i] = c

\* strings.Split(s, sep) for a one-character separator
RECURSIVE Split(_, _)
Split(s, sep) ==
    IF ~Contains(s, sep) THEN << s >>
    ELSE LET i == CHOOSE k \in 1..Len(s) :
                      s[k] = sep /\ \A j \in 1..(k - 1) : s[j] # sep
         IN  << SubSeq(s, 1, i - 1) >> \o Split(SubSeq(s, i + 1, Len(s)), sep)

\* strings.Join(elems, sep)
RECURSIVE Join(_, _)
Join(elems, sep) ==
    IF elems = << >> THEN << >>
    ELSE IF Len(elems) = 1 THEN elems[1]
    ELSE elems[1] \o sep \o Join(Tail(elems), sep)

\* s < t in Go: byte-wise lexicographic order
RECURSIVE StrLess(_, _)
StrLess(s, t) ==
    IF t = << >> THEN FALSE
    ELSE IF s = << >> THEN TRUE
    ELSE IF Ord(Head(s)) # Ord(Head(t)) THEN Ord(Head(s)) < Ord(Head(t))
    ELSE StrLess(Tail(s), Tail(t))

\* sort.Strings: the list in ascending order, repeated elements kept
RECURSIVE InsertSorted(_, _)
InsertSorted(x, sorted) ==
    IF sorted = << >> THEN << x >>
    ELSE IF StrLess(Head(sorted), x)
         THEN << Head(sorted) >> \o InsertSorted(x, Tail(sorted))
         ELSE << x >> \o sorted

RECURSIVE SortStrings(_)
SortStrings(list) ==
    IF list = << >> THEN << >>
    ELSE InsertSorted(Head(list), SortStrings(Tail(list)))

(***************************************************************************)
(* package path: Clean, Join and Dir.                                      *)
(***************************************************************************)
\* the element stack of path.Clean after reading the elements in order
RECURSIVE CleanElems(_, _, _)
CleanElems(elems, stack, rooted) ==
    IF elems = << >> THEN stack
    ELSE LET e == Head(elems)
             rest == Tail(elems)
         IN  IF e = << >> \/ e = << "." >>
             THEN CleanElems(rest, stack, rooted)
             ELSE IF e = << ".", "." >>
             THEN IF stack # << >> /\ stack[Len(stack)] # << ".", "." >>
                  THEN CleanElems(rest, SubSeq(stack, 1, Len(stack) - 1), rooted)
                  ELSE IF rooted
                  THEN CleanElems(rest, stack, rooted)
                  ELSE CleanElems(rest, Append(stack, e), rooted)
             ELSE CleanElems(rest, Append(stack, e), rooted)

PathClean(p) ==
    IF p = << >> THEN << "." >>
    ELSE LET rooted == Head(p) = "/"
             kept == Join(CleanElems(Split(p, "/"), << >>, rooted), << "/" >>)
         IN  IF rooted THEN << "/" >> \o kept
             ELSE IF kept = << >> THEN << "." >> ELSE kept

\* path.Join(a, b): empty elements are ignored, the result is cleaned
PathJoin(a, b) ==
    IF a = << >> /\ b = << >> THEN << >>
    ELSE IF a = << >> THEN PathClean(b)
    ELSE IF b = << >> THEN PathClean(a)
    ELSE PathClean(a \o << "/" >> \o b)

\* path.Dir(p): all but the last element of p, cleaned
PathDir(p) ==
    IF ~Contains(p, "/") THEN << "." >>
    ELSE LET i == CHOOSE k \in 1..Len(p) :
                      p[k] = "/" /\ \A j \in (k + 1)..Len(p) : p[j] # "/"
         IN  PathClean(SubSeq(p, 1, i))

(***************************************************************************)
(* hash/crc32: ChecksumIEEE.  A 32-bit value is the pair of its 16-bit     *)
(* halves << hi, lo >>, so that no intermediate value leaves 32 bits.      *)
(***************************************************************************)
RECURSIVE Xor(_, _)
Xor(a, b) ==
    IF a = 0 THEN b
    ELSE IF b = 0 THEN a
    ELSE ((a + b) % 2) + 2 * Xor(a \div 2, b \div 2)

\* one bit of the reflected CRC-32 with polynomial 0xEDB88320
CrcShift(crc) ==
    LET hi == crc[1] \div 2
        lo == (crc[2] \div 2) + (crc[1] % 2) * 32768
    IN  IF crc[2] % 2 = 1
        THEN << Xor(hi, 60856), Xor(lo, 33568) >>
        ELSE << hi, lo >>

\* n bits in a row
RECURSIVE CrcShifts(_, _)
CrcShifts(crc, n) == IF n = 0 THEN crc ELSE CrcShift(CrcShifts(crc, n - 1))

\* crc32.IEEETable: entry i is i pushed through eight bits
IEEETable == [ i \in 0..255 |-> CrcShifts(<< 0, i >>, 8) ]

\* crc = tab[byte(crc) ^ b] ^ (crc >> 8)
CrcByte(crc, b) ==
    LET entry == IEEETable[Xor(crc[2] % 256, b)]
    IN  << Xor(entry[1], crc[1] \div 256),
           Xor(entry[2], (crc[2] \div 256) + (crc[1] % 256) * 256) >>

\* crc32.Update: the bytes of s in order, each on the value the byte before
\* it left (c is that value)
RECURSIVE CrcUpdate(_, _)
CrcUpdate(crc, s) ==
    IF s = << >> THEN crc
    ELSE CHOOSE r \in { CrcUpdate(c, Tail(s)) :
                            c \in { CrcByte(crc, Ord(Head(s))) } } : TRUE

ChecksumIEEE(s) ==
    LET c == CrcUpdate(<< 65535, 65535 >>, s)
    IN  << 65535 - c[1], 65535 - c[2] >>

HexDigit(d) ==
    << "0", "1", "2", "3", "4", "5", "6", "7",
       "8", "9", "A", "B", "C", "D", "E", "F" >>[d + 1]

\* the four upper-case hexadecimal digits of a 16-bit value
Hex16(v) ==
    << HexDigit(v \div 4096), HexDigit((v \div 256) % 16),
       HexDigit((v \div 16) % 16), HexDigit(v % 16) >>

\* fmt.Sprintf("%08X", crc)
FormatHex08(crc) == Hex16(crc[1]) \o Hex16(crc[2])

(***************************************************************************)
(* Names fixed by the program.                                             *)
(***************************************************************************)
buildDirName == << "B", "U", "I", "L", "D" >>

buildFileName == << "B", "U", "I", "L", "D", ".", "g", "o" >>

buildFilesDirName == << "b", "u", "i", "l", "d", "f", "i", "l", "e", "s" >>

initFileName == << "i", "n", "i", "t", ".", "g", "o" >>

mainFileName == << "m", "a", "i", "n", ".", "g", "o" >>

modFileName == << "g", "o", ".", "m", "o", "d" >>

ninjaFileName == << "b", "u", "i", "l", "d", ".", "n", "i", "n", "j", "a" >>

outputDirName == << "o", "u", "t", "p", "u", "t" >>

RulesDirName == << "R", "U", "L", "E", "S" >>

DepsDirName == << "D", "E", "P", "S" >>

\* a/b as a string
Sl(a, b) == a \o << "/" >> \o b

\* the configuration name of a list of build flags (already sorted or not,
\* as the caller passes it)
buildConfigNameOf(sortedFlags) ==
    buildDirName \o << "-" >>
        \o FormatHex08(ChecksumIEEE(Join(sortedFlags, << "#" >>)))

(***************************************************************************)
(* Label normalisation.                                                    *)
(***************************************************************************)
\* dir is p or an ancestor directory of p
Encloses(dir, p) ==
    \/ p = dir
    \/ dir = << "/" >> /\ HasPrefix(p, dir)
    \/ HasPrefix(p, dir \o << "/" >>)

\* util.GetModuleRootForPath finds no module root above p and ends the run
NoModuleRootFor(p, roots) == \A r \in roots : ~Encloses(r, p)

\* util.GetModuleRootForPath: the nearest module root enclosing p
GetModuleRootForPath(p, roots) ==
    LET enclosing == { r \in roots : Encloses(r, p) }
    IN  CHOOSE r \in enclosing : \A o \in enclosing : Len(o) <= Len(r)

\* normalizeTarget ends the run instead of returning
normalizeTargetFatal(target, wd, roots) ==
    /\ ~HasPrefix(target, << "/", "/" >>)
    /\ NoModuleRootFor(PathJoin(wd, target), roots)

\* the joined path made relative to the module root itself instead of to
\* the module root's parent
normalizeTargetFromRoot(target, wd, roots) ==
    IF HasPrefix(target, << "/", "/" >>)
    THEN TrimLeftSlash(target)
    ELSE LET endsWithSlash == HasSuffix(target, << "/" >>) \/ target = << >>
             joined == PathJoin(wd, target)
             moduleRoot == GetModuleRootForPath(joined, roots)
             relative == TrimPrefix(joined, moduleRoot)
         IN  TrimLeftSlash(IF endsWithSlash
                           THEN relative \o << "/" >>
                           ELSE relative)

\* only the two-character marker removed from a workspace-rooted argument
normalizeTargetMarkerOnly(target, wd, roots) ==
    IF HasPrefix(target, << "/", "/" >>)
    THEN TrimPrefix(target, << "/", "/" >>)
    ELSE LET endsWithSlash == HasSuffix(target, << "/" >>) \/ target = << >>
             joined == PathJoin(wd, target)
             moduleRoot == GetModuleRootForPath(joined, roots)
             relative == TrimPrefix(joined, PathDir(moduleRoot))
         IN  TrimLeftSlash(IF endsWithSlash
                           THEN relative \o << "/" >>
                           ELSE relative)

normalizeTarget(target, wd, roots) ==
    IF HasPrefix(target, << "/", "/" >>)
    THEN TrimLeftSlash(target)
    ELSE LET endsWithSlash == HasSuffix(target, << "/" >>) \/ target = << >>
             joined == PathJoin(wd, target)
             moduleRoot == GetModuleRootForPath(joined, roots)
             relative == TrimPrefix(joined, PathDir(moduleRoot))
         IN  TrimLeftSlash(IF endsWithSlash
                           THEN relative \o << "/" >>
                           ELSE relative)

(***************************************************************************)
(* prepareGenerator: arguments, configuration name and directories.        *)
(***************************************************************************)
\* info.buildFlags after the loop over args: the arguments with a '='
RECURSIVE FlagArgs(_)
FlagArgs(argv) ==
    IF argv = << >> THEN << >>
    ELSE IF Contains(Head(argv), "=")
         THEN << Head(argv) >> \o FlagArgs(Tail(argv))
         ELSE FlagArgs(Tail(argv))

\* the arguments that are normalised into info.targets: those without '='
RECURSIVE TargetArgs(_)
TargetArgs(argv) ==
    IF argv = << >> THEN << >>
    ELSE IF Contains(Head(argv), "=")
         THEN TargetArgs(Tail(argv))
         ELSE << Head(argv) >> \o TargetArgs(Tail(argv))

\* the sort left out: the flags are hashed in command-line order
UnsortedBuildFlags(argv) == FlagArgs(argv)

\* info.buildFlags as hashed: sort.Strings(info.buildFlags)
SortedBuildFlags(argv) == SortStrings(FlagArgs(argv))

\* buildConfigName of an invocation with arguments argv
buildConfigName(argv) == buildConfigNameOf(SortedBuildFlags(argv))

workspaceRoot == << "/", "w" >>

buildDir(argv) == Sl(Sl(workspaceRoot, buildDirName), buildConfigName(argv))

buildOutputDir(argv) == Sl(buildDir(argv), outputDirName)

buildFilesDir(argv) == Sl(buildDir(argv), buildFilesDirName)

(***************************************************************************)
(* runBuild of cmd/build.go as it was before prepareGenerator was split    *)
(* off: the arguments that begin with "--" are the build flags, the others *)
(* are normalised in the loop.                                             *)
(***************************************************************************)
RECURSIVE runBuildFlagArgs(_)
runBuildFlagArgs(argv) ==
    IF argv = << >> THEN << >>
    ELSE IF HasPrefix(Head(argv), << "-", "-" >>)
         THEN << Head(argv) >> \o runBuildFlagArgs(Tail(argv))
         ELSE runBuildFlagArgs(Tail(argv))

\* buildConfigName of that runBuild
runBuildConfigName(argv) == buildConfigNameOf(SortStrings(runBuildFlagArgs(argv)))

\* its buildDir: the output directory of the configuration
runBuildBuildDir(argv) ==
    Sl(Sl(Sl(workspaceRoot, buildDirName), runBuildConfigName(argv)), outputDirName)

\* what its loop appends to targets for the argument arg
runBuildTarget(arg, wd, roots) ==
    IF ~HasPrefix(arg, << "/", "/" >>)
    THEN TrimLeftSlash(TrimPrefix(PathJoin(wd, arg),
                                  PathDir(GetModuleRootForPath(PathJoin(wd, arg), roots))))
    ELSE TrimLeftSlash(arg)

(***************************************************************************)
(* Files of a module and the go/ast view of a BUILD.go file.               *)
(*   module: [name, path, entries]; entries is the module's tree in walk   *)
(*           order, each [path, isDir, ast]                                *)
(*   ast:    [ok, name, decls]; ok is FALSE when parser.ParseFile fails    *)
(*   decl:   [gen, tok, specs]; gen is FALSE for a declaration that is not *)
(*           an *ast.GenDecl (a function)                                  *)
(*   spec:   [kind, names] with kind "import", "value" or "type"           *)
(***************************************************************************)
\* path.Base for a cleaned path: the last element (os.FileInfo.Name)
PathBase(p) == Split(p, "/")[Len(Split(p, "/"))]

\* path.Ext: the suffix of the last element that starts at its last dot
PathExt(p) ==
    LET base == PathBase(p)
    IN  IF ~Contains(base, ".") THEN << >>
        ELSE LET i == CHOOSE k \in 1..Len(base) :
                          base[k] = "." /\ \A j \in (k + 1)..Len(base) : base[j] # "."
             IN  SubSeq(base, i, Len(base))

\* the switch over one spec of a declaration ends the run
SpecFatal(decl, spec) ==
    CASE spec.kind = "import" -> FALSE
      [] spec.kind = "value"  ->
            \/ decl.tok # "var"
            \/ \E i \in 1..Len(spec.names) : spec.names[i] = << "_" >>
      [] OTHER -> TRUE

DeclFatal(decl) ==
    \/ ~decl.gen
    \/ \E i \in 1..Len(decl.specs) : SpecFatal(decl, decl.specs[i])

\* parseBuildFile calls log.Fatal
parseBuildFileFatal(ast) ==
    \/ ~ast.ok
    \/ \E i \in 1..Len(ast.decls) : DeclFatal(ast.decls[i])

\* the message of the log.Fatal call parseBuildFile reaches first
SpecMessage(decl, spec) ==
    IF spec.kind = "value" /\ decl.tok = "var"
    THEN "contains anonymous target declarations"
    ELSE "contains invalid declarations"

DeclMessage(decl) ==
    IF ~decl.gen THEN "contains invalid declarations"
    ELSE SpecMessage(decl,
             decl.specs[CHOOSE i \in 1..Len(decl.specs) :
                            /\ SpecFatal(decl, decl.specs[i])
                            /\ \A j \in 1..(i - 1) : ~SpecFatal(decl, decl.specs[j])])

parseBuildFileMessage(ast) ==
    IF ~ast.ok THEN "Failed to parse"
    ELSE DeclMessage(ast.decls[CHOOSE i \in 1..Len(ast.decls) :
                                   /\ DeclFatal(ast.decls[i])
                                   /\ \A j \in 1..(i - 1) : ~DeclFatal(ast.decls[j])])

RECURSIVE SpecsTargets(_)
SpecsTargets(specs) ==
    IF specs = << >> THEN << >>
    ELSE (IF Head(specs).kind = "value" THEN Head(specs).names ELSE << >>)
             \o SpecsTargets(Tail(specs))

RECURSIVE DeclsTargets(_)
DeclsTargets(decls) ==
    IF decls = << >> THEN << >>
    ELSE SpecsTargets(Head(decls).specs) \o DeclsTargets(Tail(decls))

\* the targets parseBuildFile returns for a file it accepts
parseBuildFileTargets(ast) == DeclsTargets(ast.decls)

(***************************************************************************)
(* copyBuildAndRuleFiles and createGeneratorMainFile.  A staged file is    *)
(* [path, kind, package, importPath, targets, source].                     *)
(***************************************************************************)
StagedFile(path, kind, package, importPath, targets, source) ==
    [ path |-> path, kind |-> kind, package |-> package,
      importPath |-> importPath, targets |-> targets, source |-> source ]

\* util.WriteFile / util.CopyFile: the file at f.path is created or replaced
WriteStaged(tree, f) == { o \in tree : o.path # f.path } \cup { f }

\* the directory left as it is
RemoveDirKeepingFiles(tree, dir) == tree

\* util.RemoveDir(dir)
RemoveDir(tree, dir) == { o \in tree : ~Encloses(dir, o.path) }

\* the BUILD.go files the walk of a module collects, in walk order
RECURSIVE WalkBuildFiles(_, _, _)
WalkBuildFiles(entries, modulePath, skipped) ==
    IF entries = << >> THEN << >>
    ELSE LET e == Head(entries)
             rel == TrimPrefix(e.path, modulePath \o << "/" >>)
         IN  IF \E d \in skipped : HasPrefix(e.path, d \o << "/" >>)
             THEN WalkBuildFiles(Tail(entries), modulePath, skipped)
             ELSE IF e.isDir /\ rel \in { buildDirName, DepsDirName, RulesDirName }
             THEN WalkBuildFiles(Tail(entries), modulePath, skipped \cup { e.path })
             ELSE IF e.isDir \/ PathBase(e.path) # buildFileName
             THEN WalkBuildFiles(Tail(entries), modulePath, skipped)
             ELSE << e >> \o WalkBuildFiles(Tail(entries), modulePath, skipped)

\* one pass of the loop over buildFiles, for a file with these relative
\* paths: the package is recorded, the file parsed, init.go written and
\* BUILD.go copied
StageBuildFile(buildFile, relativeFilePath, relativeDirPath, mod, modFilesDir, acc) ==
    IF parseBuildFileFatal(buildFile.ast)
    THEN [ tree |-> acc.tree,
           packages |-> Append(acc.packages, PathJoin(mod.name, relativeDirPath)),
           fatal |-> TRUE,
           message |-> parseBuildFileMessage(buildFile.ast) ]
    ELSE [ tree |->
               WriteStaged(
                   WriteStaged(acc.tree,
                       StagedFile(PathJoin(PathJoin(modFilesDir, relativeDirPath),
                                           initFileName),
                                  "init", buildFile.ast.name,
                                  PathJoin(mod.name, relativeDirPath),
                                  parseBuildFileTargets(buildFile.ast), buildFile.path)),
                   StagedFile(PathJoin(modFilesDir, relativeFilePath),
                              "build", buildFile.ast.name,
                              PathJoin(mod.name, relativeDirPath), << >>,
                              buildFile.path)),
           packages |-> Append(acc.packages, PathJoin(mod.name, relativeDirPath)),
           fatal |-> FALSE,
           message |-> "" ]

RelativeFilePath(filePath, modulePath) == TrimPrefix(filePath, modulePath \o << "/" >>)

RelativeDirPath(filePath, modulePath) ==
    TrimSuffix(PathDir(RelativeFilePath(filePath, modulePath)), << "/" >>)

RECURSIVE StageBuildFiles(_, _, _, _)
StageBuildFiles(files, mod, modFilesDir, acc) ==
    IF files = << >> \/ acc.fatal THEN acc
    ELSE StageBuildFiles(Tail(files), mod, modFilesDir,
             StageBuildFile(Head(files),
                            RelativeFilePath(Head(files).path, mod.path),
                            RelativeDirPath(Head(files).path, mod.path),
                            mod, modFilesDir, acc))

\* the walk of <module>/RULES: every .go file below it is copied
RECURSIVE StageRuleFiles(_, _, _, _)
StageRuleFiles(entries, mod, modFilesDir, tree) ==
    IF entries = << >> THEN tree
    ELSE LET e == Head(entries)
             relativeFilePath == TrimPrefix(e.path, mod.path \o << "/" >>)
             copyFile == StagedFile(PathJoin(modFilesDir, relativeFilePath),
                                    "rule", << >>, << >>, << >>, e.path)
         IN  IF ~Encloses(Sl(mod.path, RulesDirName), e.path)
                \/ e.isDir \/ PathExt(e.path) # << ".", "g", "o" >>
             THEN StageRuleFiles(Tail(entries), mod, modFilesDir, tree)
             ELSE StageRuleFiles(Tail(entries), mod, modFilesDir,
                                 WriteStaged(tree, copyFile))

\* the second half of copyBuildAndRuleFiles, reached when no BUILD.go was fatal
CopyRuleFiles(built, mod, modFilesDir) ==
    IF built.fatal THEN built
    ELSE [ built EXCEPT !.tree =
               StageRuleFiles(mod.entries, mod, modFilesDir, built.tree) ]

\* copyBuildAndRuleFiles for one module: the staging tree after it, the
\* packages it returns, and whether (and with which message) it ended the run
copyBuildAndRuleFiles(mod, modFilesDir, tree) ==
    CopyRuleFiles(
        StageBuildFiles(WalkBuildFiles(mod.entries, mod.path, {}), mod, modFilesDir,
            [ tree |-> WriteStaged(tree, StagedFile(Sl(modFilesDir, modFileName),
                                                    "mod", mod.name, << >>, << >>, << >>)),
              packages |-> << >>, fatal |-> FALSE, message |-> "" ]),
        mod, modFilesDir)

\* the loop over modules in prepareGenerator, in the order the map yields
\* packages = append(packages, modulePackages...)
AppendPackages(packages, one) ==
    [ tree |-> one.tree, packages |-> packages \o one.packages,
      fatal |-> one.fatal, message |-> one.message ]

RECURSIVE StageModules(_, _, _)
StageModules(order, filesDir, acc) ==
    IF order = << >> \/ acc.fatal THEN acc
    ELSE StageModules(Tail(order), filesDir,
             AppendPackages(acc.packages,
                 copyBuildAndRuleFiles(Head(order),
                                       PathJoin(filesDir, Head(order).name),
                                       acc.tree)))

\* createGeneratorMainFile: main.go importing every package, and go.mod
createGeneratorMainFile(tree, filesDir, packages) ==
    WriteStaged(
        WriteStaged(tree, StagedFile(PathJoin(filesDir, mainFileName), "main",
                                     << "m", "a", "i", "n" >>, << >>, packages, << >>)),
        StagedFile(PathJoin(filesDir, modFileName), "mod",
                   << "r", "o", "o", "t" >>, << >>, << >>, << >>))

(***************************************************************************)
(* The generator (go run main.go <mode> ...) and what runBuild reads from  *)
(* its standard output.                                                    *)
(***************************************************************************)
RECURSIVE SetToSeq(_)
SetToSeq(set) ==
    IF set = {} THEN << >>
    ELSE LET x == CHOOSE e \in set : TRUE
         IN  << x >> \o SetToSeq(set \ { x })

\* the labels the init.go files below filesDir register with ctx.AddTarget
StagedTargets(tree, filesDir) ==
    UNION { { Sl(f.importPath, f.targets[i]) : i \in 1..Len(f.targets) } :
            f \in { g \in tree : g.kind = "init" /\ Encloses(filesDir, g.path) } }

\* standard output of a successful run, split at "\n": one line per name and
\* the empty string after the last newline
GeneratorLines(mode, tree, filesDir, flagNames) ==
    CASE mode = "targets" -> SetToSeq(StagedTargets(tree, filesDir)) \o << << >> >>
      [] mode = "flags"   -> SetToSeq(flagNames) \o << << >> >>

\* getAvailable: the non-empty lines, as a set
getAvailable(lines) == { lines[i] : i \in 1..Len(lines) } \ { << >> }

\* a child process or a write: for a process its mode, arguments, working
\* directory, standard output and whether it exited with 0; for a write the
\* file (dir) and the bytes (out)
Event(op, mode, argv, dir, out, ok) ==
    [ op |-> op, mode |-> mode, args |-> argv, dir |-> dir, out |-> out, ok |-> ok ]

\* runGenerator's child process: go run main.go <mode> ... <flags>, in buildFilesDir
GeneratorEvent(mode, out, ok) ==
    Event("go run", mode, info.buildFlags, info.buildFilesDir, out, ok)

\* runGenerator's fmt.Print of the child's captured standard error, before
\* err is looked at: printed.stderr lists the modes whose standard error
\* has been printed
StderrPrinted(mode) == [ printed EXCEPT !.stderr = Append(@, mode) ]

(***************************************************************************)
(* runBuild: resolution of the requested labels and of the build flags.    *)
(***************************************************************************)
Wildcard == << ".", ".", "." >>

\* what one requested label adds to uniqueNinjaTargets
ExpandTarget(target, available) ==
    IF ~HasSuffix(target, Wildcard)
    THEN { target }
    ELSE { a \in available : HasPrefix(a, TrimSuffix(target, Wildcard)) }

\* the loop body calls log.Fatal for this label
TargetFatal(target, available) ==
    IF ~HasSuffix(target, Wildcard)
    THEN target \notin available
    ELSE ExpandTarget(target, available) = {}

\* one found flag for all the patterns: a pattern that matches nothing is
\* fatal only when no pattern of the command line matches
TargetsFatalOneFound(targets, available) ==
    \/ \E i \in 1..Len(targets) :
           ~HasSuffix(targets[i], Wildcard) /\ targets[i] \notin available
    \/ /\ \E i \in 1..Len(targets) : HasSuffix(targets[i], Wildcard)
       /\ \A i \in 1..Len(targets) :
              HasSuffix(targets[i], Wildcard) =>
                  ExpandTarget(targets[i], available) = {}

TargetsFatal(targets, available) ==
    \E i \in 1..Len(targets) : TargetFatal(targets[i], available)

\* the message of the first label of the loop that is fatal
TargetsMessage(targets, available) ==
    IF \E i \in 1..Len(targets) :
           /\ TargetFatal(targets[i], available)
           /\ \A j \in 1..(i - 1) : ~TargetFatal(targets[j], available)
           /\ HasSuffix(targets[i], Wildcard)
    THEN "No target is matching pattern"
    ELSE "Target does not exist"

\* uniqueNinjaTargets after the loop over info.targets
UniqueNinjaTargets(targets, available) ==
    UNION { ExpandTarget(targets[i], available) : i \in 1..Len(targets) }

\* the lists "for target := range uniqueNinjaTargets" can append: one entry
\* per key, in any order
NinjaTargetLists(unique) ==
    { l \in [1..Cardinality(unique) -> unique] :
          \A i, j \in 1..Cardinality(unique) : l[i] = l[j] => i = j }

\* the labels appended as they are resolved, without the map: one entry
\* per requested label and per match of a pattern
RECURSIVE AppendedNinjaTargets(_, _)
AppendedNinjaTargets(targets, available) ==
    IF targets = << >> THEN { << >> }
    ELSE { h \o r : h \in NinjaTargetLists(ExpandTarget(Head(targets), available)),
                   r \in AppendedNinjaTargets(Tail(targets), available) }

\* info.ninjaTargets as the two loops can leave it
ExpandedNinjaTargets(targets, available) ==
    NinjaTargetLists(UniqueNinjaTargets(targets, available))

\* the flags are not validated
FlagsUnchecked(flags, available) == FALSE

\* strings.Split(flag, "=")[0]
FlagName(flag) == Split(flag, "=")[1]

FlagsFatal(flags, available) ==
    \E i \in 1..Len(flags) : FlagName(flags[i]) \notin available

\* runNinja's argument list
NinjaArgs(ninjaTargets, isVerbose) ==
    IF isVerbose THEN << << "-", "v" >> >> \o ninjaTargets ELSE ninjaTargets

(***************************************************************************)
(* The steps of one invocation of runBuild.                                *)
(***************************************************************************)
\* the orders in which a range over the modules map can yield them
ModuleOrders(mods) ==
    { o \in [1..Cardinality(mods) -> mods] :
          \A i, j \in 1..Cardinality(mods) : o[i] = o[j] => i = j }

RECURSIVE NormalizeAll(_, _, _)
NormalizeAll(targetArgs, wd, roots) ==
    IF targetArgs = << >> THEN << >>
    ELSE << normalizeTarget(Head(targetArgs), wd, roots) >>
             \o NormalizeAll(Tail(targetArgs), wd, roots)

\* info as prepareGenerator returns it
PreparedInfo(argv, wd, roots) ==
    [ workingDir     |-> wd,
      sourceDir      |-> PathJoin(workspaceRoot, DepsDirName),
      buildOutputDir |-> buildOutputDir(argv),
      buildFilesDir  |-> buildFilesDir(argv),
      buildFlags     |-> SortedBuildFlags(argv),
      targets        |-> NormalizeAll(TargetArgs(argv), wd, roots),
      ninjaTargets   |-> << >> ]

\* prepareGenerator from util.RemoveDir on, with the outcome of the loop
\* over the modules
Staged(filesDir, staged) ==
    /\ info' = PreparedInfo(args, workingDir, moduleRoots)
    /\ IF staged.fatal
       THEN /\ stagingTree' = staged.tree
            /\ trace' = trace \o
                   << Event("remove", "", << >>, filesDir, "", TRUE),
                      Event("stage", "", staged.packages, filesDir, "", FALSE) >>
            /\ pc' = "fatal"
            /\ failure' = staged.message
       ELSE /\ stagingTree' =
                   createGeneratorMainFile(staged.tree, filesDir, staged.packages)
            /\ trace' = trace \o
                   << Event("remove", "", << >>, filesDir, "", TRUE),
                      Event("stage", "", staged.packages, filesDir, "", TRUE),
                      Event("main.go", "", staged.packages, filesDir, "", TRUE) >>
            /\ pc' = "prepared"
            /\ failure' = ""

\* the whole directory of the configuration removed, output/ with it
PrepareGeneratorFreshBuildDir ==
    /\ pc = "start"
    /\ IF \E i \in 1..Len(TargetArgs(args)) :
              normalizeTargetFatal(TargetArgs(args)[i], workingDir, moduleRoots)
       THEN /\ pc' = "fatal"
            /\ failure' = "Could not identify module root"
            /\ UNCHANGED << info, stagingTree, trace, outputTree >>
       ELSE /\ outputTree' = {}
            /\ \E order \in ModuleOrders(modules) :
                Staged(buildFilesDir(args),
                       StageModules(order, buildFilesDir(args),
                           [ tree |-> RemoveDir(stagingTree, buildFilesDir(args)),
                             packages |-> << >>, fatal |-> FALSE, message |-> "" ]))
    /\ UNCHANGED << args, workingDir, verbose, moduleRoots, modules, declaredFlags,
                    availableTargets, availableFlags, printed >>

\* prepareGenerator: split and normalise the arguments, name the
\* configuration, remove buildfiles/, stage every module, write main.go
PrepareGenerator ==
    /\ pc = "start"
    /\ IF \E i \in 1..Len(TargetArgs(args)) :
              normalizeTargetFatal(TargetArgs(args)[i], workingDir, moduleRoots)
       THEN /\ pc' = "fatal"
            /\ failure' = "Could not identify module root"
            /\ UNCHANGED << info, stagingTree, trace >>
       ELSE \E order \in ModuleOrders(modules) :
                Staged(buildFilesDir(args),
                       StageModules(order, buildFilesDir(args),
                           [ tree |-> RemoveDir(stagingTree, buildFilesDir(args)),
                             packages |-> << >>, fatal |-> FALSE, message |-> "" ]))
    /\ UNCHANGED << args, workingDir, verbose, moduleRoots, modules, declaredFlags,
                    outputTree, availableTargets, availableFlags, printed >>

\* getAvailableTargets: runGenerator in mode "targets"
GetAvailableTargets ==
    /\ pc = "prepared"
    /\ \E ok \in BOOLEAN :
        IF ok
        THEN /\ trace' = Append(trace,
                     GeneratorEvent("targets",
                         GeneratorLines("targets", stagingTree, info.buildFilesDir,
                                        declaredFlags), TRUE))
             /\ availableTargets' =
                    getAvailable(GeneratorLines("targets", stagingTree,
                                                info.buildFilesDir, declaredFlags))
             /\ pc' = "haveTargets"
             /\ UNCHANGED failure
        ELSE /\ trace' = Append(trace, GeneratorEvent("targets", << >>, FALSE))
             /\ pc' = "fatal"
             /\ failure' = "Failed to run generator"
             /\ UNCHANGED availableTargets
    /\ printed' = StderrPrinted("targets")
    /\ UNCHANGED << args, workingDir, verbose, moduleRoots, modules, declaredFlags,
                    stagingTree, outputTree, info, availableFlags >>

\* getAvailableFlags: runGenerator in mode "flags"
GetAvailableFlags ==
    /\ pc = "haveTargets"
    /\ \E ok \in BOOLEAN :
        IF ok
        THEN /\ trace' = Append(trace,
                     GeneratorEvent("flags",
                         GeneratorLines("flags", stagingTree, info.buildFilesDir,
                                        declaredFlags), TRUE))
             /\ availableFlags' =
                    getAvailable(GeneratorLines("flags", stagingTree,
                                                info.buildFilesDir, declaredFlags))
             /\ pc' = "haveFlags"
             /\ UNCHANGED failure
        ELSE /\ trace' = Append(trace, GeneratorEvent("flags", << >>, FALSE))
             /\ pc' = "fatal"
             /\ failure' = "Failed to run generator"
             /\ UNCHANGED availableFlags
    /\ printed' = StderrPrinted("flags")
    /\ UNCHANGED << args, workingDir, verbose, moduleRoots, modules, declaredFlags,
                    stagingTree, outputTree, info, availableTargets >>

\* the return after the listing left out: the run goes on to runNinja
ListAvailableNoReturn ==
    /\ pc = "haveFlags"
    /\ Len(info.targets) = 0
    /\ printed' = [ printed EXCEPT !.listed = TRUE, !.targets = availableTargets,
                                    !.flags = availableFlags ]
    /\ pc' = "resolved"
    /\ UNCHANGED << args, workingDir, verbose, moduleRoots, modules, declaredFlags,
                    stagingTree, outputTree, info, availableTargets,
                    availableFlags, failure, trace >>

\* len(info.targets) == 0: print what is available and return
ListAvailable ==
    /\ pc = "haveFlags"
    /\ Len(info.targets) = 0
    /\ printed' = [ printed EXCEPT !.listed = TRUE, !.targets = availableTargets,
                                    !.flags = availableFlags ]
    /\ pc' = "done"
    /\ UNCHANGED << args, workingDir, verbose, moduleRoots, modules, declaredFlags,
                    stagingTree, outputTree, info, availableTargets,
                    availableFlags, failure, trace >>

\* the loop over info.targets, the filling of info.ninjaTargets and the
\* loop over info.buildFlags
ResolveTargets ==
    /\ pc = "haveFlags"
    /\ Len(info.targets) # 0
    /\ IF TargetsFatal(info.targets, availableTargets)
       THEN /\ pc' = "fatal"
            /\ failure' = TargetsMessage(info.targets, availableTargets)
            /\ UNCHANGED info
       ELSE \E list \in ExpandedNinjaTargets(info.targets, availableTargets) :
                /\ info' = [ info EXCEPT !.ninjaTargets = list ]
                /\ IF FlagsFatal(info.buildFlags, availableFlags)
                   THEN pc' = "fatal" /\ failure' = "Flag does not exist"
                   ELSE pc' = "resolved" /\ UNCHANGED failure
    /\ UNCHANGED << args, workingDir, verbose, moduleRoots, modules, declaredFlags,
                    stagingTree, outputTree, availableTargets, availableFlags,
                    printed, trace >>

\* the build.ninja texts a generator run can print
Graphs == { "graph1", "graph2" }

\* util.WriteFile below output/
WriteOutput(tree, path, content) ==
    { o \in tree : o.path # path } \cup { [ path |-> path, content |-> content ] }

\* build.ninja written beside the staged files, in buildFilesDir
GenerateNinjaFileInFilesDir ==
    /\ pc = "resolved"
    /\ \E ok \in BOOLEAN, ninjaFileContent \in Graphs :
        IF ok
        THEN /\ outputTree' = WriteOutput(outputTree,
                                  PathJoin(info.buildFilesDir, ninjaFileName),
                                  ninjaFileContent)
             /\ trace' = trace \o
                    << GeneratorEvent("ninja", ninjaFileContent, TRUE),
                       Event("write", "", << >>,
                             PathJoin(info.buildFilesDir, ninjaFileName),
                             ninjaFileContent, TRUE) >>
             /\ pc' = "generated"
             /\ UNCHANGED failure
        ELSE /\ trace' = Append(trace, GeneratorEvent("ninja", "", FALSE))
             /\ pc' = "fatal"
             /\ failure' = "Failed to run generator"
             /\ UNCHANGED outputTree
    /\ printed' = StderrPrinted("ninja")
    /\ UNCHANGED << args, workingDir, verbose, moduleRoots, modules, declaredFlags,
                    stagingTree, info, availableTargets, availableFlags >>

\* err of the run in mode "ninja" not looked at: whatever the run printed
\* is written and ninja is started
GenerateNinjaFileIgnoringError ==
    /\ pc = "resolved"
    /\ \E ok \in BOOLEAN, ninjaFileContent \in Graphs :
        IF ok
        THEN /\ outputTree' = WriteOutput(outputTree,
                                  PathJoin(info.buildOutputDir, ninjaFileName),
                                  ninjaFileContent)
             /\ trace' = trace \o
                    << GeneratorEvent("ninja", ninjaFileContent, TRUE),
                       Event("write", "", << >>,
                             PathJoin(info.buildOutputDir, ninjaFileName),
                             ninjaFileContent, TRUE) >>
             /\ pc' = "generated"
             /\ UNCHANGED failure
        ELSE /\ outputTree' = WriteOutput(outputTree,
                                  PathJoin(info.buildOutputDir, ninjaFileName), "")
             /\ trace' = trace \o
                    << GeneratorEvent("ninja", "", FALSE),
                       Event("write", "", << >>,
                             PathJoin(info.buildOutputDir, ninjaFileName), "", TRUE) >>
             /\ pc' = "generated"
             /\ UNCHANGED failure
    /\ printed' = StderrPrinted("ninja")
    /\ UNCHANGED << args, workingDir, verbose, moduleRoots, modules, declaredFlags,
                    stagingTree, info, availableTargets, availableFlags >>

\* runNinja, first half: runGenerator in mode "ninja" and the write of
\* its standard output to build.ninja
GenerateNinjaFile ==
    /\ pc = "resolved"
    /\ \E ok \in BOOLEAN, ninjaFileContent \in Graphs :
        IF ok
        THEN /\ outputTree' = WriteOutput(outputTree,
                                  PathJoin(info.buildOutputDir, ninjaFileName),
                                  ninjaFileContent)
             /\ trace' = trace \o
                    << GeneratorEvent("ninja", ninjaFileContent, TRUE),
                       Event("write", "", << >>,
                             PathJoin(info.buildOutputDir, ninjaFileName),
                             ninjaFileContent, TRUE) >>
             /\ pc' = "generated"
             /\ UNCHANGED failure
        ELSE /\ trace' = Append(trace, GeneratorEvent("ninja", "", FALSE))
             /\ pc' = "fatal"
             /\ failure' = "Failed to run generator"
             /\ UNCHANGED outputTree
    /\ printed' = StderrPrinted("ninja")
    /\ UNCHANGED << args, workingDir, verbose, moduleRoots, modules, declaredFlags,
                    stagingTree, info, availableTargets, availableFlags >>

\* runNinja, second half: the ninja child process in buildOutputDir
RunNinja ==
    /\ pc = "generated"
    /\ \E ok \in BOOLEAN :
        /\ trace' = Append(trace, Event("ninja", "", NinjaArgs(info.ninjaTargets, verbose),
                                        info.buildOutputDir, "", ok))
        /\ pc' = IF ok THEN "done" ELSE "fatal"
        /\ failure' = IF ok THEN "" ELSE "Ninja failed"
    /\ UNCHANGED << args, workingDir, verbose, moduleRoots, modules, declaredFlags,
                    stagingTree, outputTree, info, availableTargets,
                    availableFlags, printed >>

Next ==
    \/ PrepareGenerator
    \/ GetAvailableTargets
    \/ GetAvailableFlags
    \/ ListAvailable
    \/ ResolveTargets
    \/ GenerateNinjaFile
    \/ RunNinja

(***************************************************************************)
(* Workspaces, command lines and initial states.                           *)
(***************************************************************************)
\* every list of at most n elements of universe
ArgLists(universe, n) == UNION { [1..k -> universe] : k \in 0..n }

Ast(name, decls) == [ ok |-> TRUE, name |-> name, decls |-> decls ]

NoAst == [ ok |-> FALSE, name |-> << >>, decls |-> << >> ]

Dir(path) == [ path |-> path, isDir |-> TRUE, ast |-> NoAst ]

File(path, ast) == [ path |-> path, isDir |-> FALSE, ast |-> ast ]

ImportDecl ==
    [ gen |-> TRUE, tok |-> "import",
      specs |-> << [ kind |-> "import", names |-> << >> ] >> ]

\* var <names> = ...
VarDecl(names) ==
    [ gen |-> TRUE, tok |-> "var",
      specs |-> << [ kind |-> "value", names |-> names ] >> ]

\* const c = ...
ConstDecl ==
    [ gen |-> TRUE, tok |-> "const",
      specs |-> << [ kind |-> "value", names |-> << << "c" >> >> ] >> ]

\* const ()
EmptyConstDecl == [ gen |-> TRUE, tok |-> "const", specs |-> << >> ]

\* type t ...
TypeDecl ==
    [ gen |-> TRUE, tok |-> "type",
      specs |-> << [ kind |-> "type", names |-> << << "t" >> >> ] >> ]

\* func f() ...
FuncDecl == [ gen |-> FALSE, tok |-> "func", specs |-> << >> ]

Decls ==
    { ImportDecl, VarDecl(<< << "x" >> >>), VarDecl(<< << "y" >>, << "z" >> >>),
      VarDecl(<< << "_" >> >>), ConstDecl, EmptyConstDecl, TypeDecl, FuncDecl }

\* the files the Go parser can hand to parseBuildFile, and one it rejects
Asts == { Ast(<< "p" >>, d) : d \in ArgLists(Decls, MaxDecls) } \cup { NoAst }

depsDir == Sl(workspaceRoot, DepsDirName)

pathM == Sl(depsDir, << "m" >>)

pathN == Sl(depsDir, << "n" >>)

\* module m: BUILD/ and RULES/ (skipped by the walk), p/BUILD.go, q/BUILD.go
ModuleM(astP, withQ) ==
    [ name |-> << "m" >>, path |-> pathM,
      entries |->
          << Dir(pathM),
             Dir(Sl(pathM, buildDirName)),
             File(Sl(Sl(pathM, buildDirName), buildFileName),
                  Ast(<< "b" >>, << VarDecl(<< << "b" >> >>) >>)),
             Dir(Sl(pathM, RulesDirName)),
             File(Sl(Sl(pathM, RulesDirName), << "r", ".", "g", "o" >>), NoAst),
             File(Sl(Sl(pathM, RulesDirName), << "r", ".", "m", "d" >>), NoAst),
             Dir(Sl(pathM, << "p" >>)),
             File(Sl(Sl(pathM, << "p" >>), buildFileName), astP),
             File(Sl(Sl(pathM, << "p" >>), << "x", ".", "c" >>), NoAst) >>
          \o (IF withQ
              THEN << Dir(Sl(pathM, << "q" >>)),
                      File(Sl(Sl(pathM, << "q" >>), buildFileName),
                           Ast(<< "q" >>, << ImportDecl, VarDecl(<< << "z" >> >>) >>)) >>
              ELSE << >>) ]

\* module n: a BUILD.go in the module root and no RULES/
ModuleN ==
    [ name |-> << "n" >>, path |-> pathN,
      entries |->
          << Dir(pathN),
             File(Sl(pathN, buildFileName),
                  Ast(<< "n" >>, << VarDecl(<< << "y" >> >>) >>)) >> ]

\* m/p/x, m/p/y and m/q/z
WorkspaceXYZ ==
    { ModuleM(Ast(<< "p" >>, << VarDecl(<< << "x" >> >>), VarDecl(<< << "y" >> >>) >>),
              TRUE) }

\* one module, one definition file, one target: m/p/x
WorkspaceX == { ModuleM(Ast(<< "p" >>, << VarDecl(<< << "x" >> >>) >>), FALSE) }

EmptyInfo ==
    [ workingDir |-> << >>, sourceDir |-> << >>, buildOutputDir |-> << >>,
      buildFilesDir |-> << >>, buildFlags |-> << >>, targets |-> << >>,
      ninjaTargets |-> << >> ]

\* what an earlier invocation with the same flags left below buildfiles/:
\* the glue file and the definition file of a package, and a rule file, that
\* have since been removed from module m
StaleStaging(argv) ==
    { StagedFile(Sl(Sl(Sl(buildFilesDir(argv), << "m" >>), << "o" >>), initFileName),
                 "init", << "o" >>, << "m", "/", "o" >>, << << "x" >> >>,
                 Sl(Sl(pathM, << "o" >>), buildFileName)),
      StagedFile(Sl(Sl(Sl(buildFilesDir(argv), << "m" >>), << "o" >>), buildFileName),
                 "build", << "o" >>, << "m", "/", "o" >>, << >>,
                 Sl(Sl(pathM, << "o" >>), buildFileName)),
      StagedFile(Sl(Sl(Sl(buildFilesDir(argv), << "m" >>), RulesDirName),
                    << "o", ".", "g", "o" >>),
                 "rule", << >>, << >>, << >>,
                 Sl(Sl(pathM, RulesDirName), << "o", ".", "g", "o" >>)) }

\* and below output/: its build.ninja and a build output
StaleOutput(argv) ==
    { [ path |-> Sl(buildOutputDir(argv), ninjaFileName), content |-> "stale" ],
      [ path |-> Sl(buildOutputDir(argv), << "m", "/", "p", "/", "x", ".", "o" >>),
        content |-> "stale" ] }

\* runBuild is entered: nothing computed, nothing started
InitRun ==
    /\ pc = "start"
    /\ info = EmptyInfo
    /\ availableTargets = {}
    /\ availableFlags = {}
    /\ printed = [ listed |-> FALSE, targets |-> {}, flags |-> {}, stderr |-> << >> ]
    /\ failure = ""
    /\ trace = << >>
    /\ stagingTree = StaleStaging(args)
    /\ outputTree = StaleOutput(args)

\* command lines of the full pipeline: labels, wildcards and flags
PipelineArgs ==
    { << "/", "/", "m", "/", "p", "/", "x" >>,
      << "q", "/", "z" >>,
      << "/", "/", "m", "/", "p", "/", "w" >>,
      << "/", "/", "m", "/", "p", "/", ".", ".", "." >>,
      << "/", "/", "m", "/", ".", ".", "." >>,
      << "/", "/", "n", "/", ".", ".", "." >>,
      << "f", "=", "1" >>,
      << "g", "=", "1", "=", "2" >> }

Init ==
    /\ args \in ArgLists(PipelineArgs, MaxArgs)
    /\ workingDir = pathM
    /\ verbose \in BOOLEAN
    /\ modules \in { WorkspaceXYZ, WorkspaceX }
    /\ moduleRoots = { m.path : m \in modules }
    /\ declaredFlags \in { { << "f" >> }, { << "f" >>, << "g" >> } }
    /\ InitRun

Spec == Init /\ [][Next]_vars

\* build flags only, in every order and with repetitions, then one label
FlagUniverse ==
    { << "-", "-", "a", "=", "1" >>, << "-", "-", "a", "=", "2" >>,
      << "-", "-", "b", "=", "1" >> }

InitConfig ==
    /\ args \in { f \o t : f \in ArgLists(FlagUniverse, MaxFlags),
                           t \in { << >>, << << "/", "/", "m", "/", "p", "/", "x" >> >> } }
    /\ workingDir = pathM
    /\ verbose = FALSE
    /\ modules = WorkspaceX
    /\ moduleRoots = { m.path : m \in modules }
    /\ declaredFlags = { << "-", "-", "a" >>, << "-", "-", "b" >> }
    /\ InitRun

SpecConfig == InitConfig /\ [][Next]_vars

\* one label argument, from several working directories and module layouts
NormArgs ==
    { << "c" >>,
      << "c", "/" >>,
      << >>,
      << "." >>,
      << ".", ".", "/", "c" >>,
      << ".", "/", "c" >>,
      << "p", "/", "x" >>,
      << "/", "c" >>,
      << "/", "/", "a", "/", "b", "/", "c" >>,
      << "/", "/", "a", "/", "b", "/" >>,
      << "/", "/", "m", "/", "p", "/", "x" >>,
      << "/", "/", "/", "a" >>,
      << "/", "/" >> }

NormWorkingDirs ==
    { pathM,
      Sl(pathM, << "a" >>),
      Sl(Sl(pathM, << "a" >>), << "b" >>),
      Sl(Sl(workspaceRoot, << "a" >>), << "b" >>),
      << "/", "a", "/", "b" >>,
      depsDir }

NormModuleRoots ==
    { { pathM },
      { pathM, workspaceRoot },
      { pathM, workspaceRoot, Sl(pathM, << "a" >>) },
      { pathM, << "/" >> } }

InitNorm ==
    /\ args \in { << >> } \cup { << a >> : a \in NormArgs }
    /\ workingDir \in NormWorkingDirs
    /\ verbose = FALSE
    /\ modules = WorkspaceX
    /\ moduleRoots \in NormModuleRoots
    /\ declaredFlags = {}
    /\ InitRun

SpecNorm == InitNorm /\ [][Next]_vars

\* one definition file of every shape, beside a second module
InitStage ==
    /\ args \in { << >>,
                  << << "/", "/", "n", "/", "y" >> >>,
                  << << "/", "/", "m", "/", "p", "/", "x" >> >> }
    /\ workingDir = pathM
    /\ verbose = FALSE
    /\ modules \in { { ModuleM(a, FALSE), ModuleN } : a \in Asts }
    /\ moduleRoots = { m.path : m \in modules }
    /\ declaredFlags = {}
    /\ InitRun

SpecStage == InitStage /\ [][Next]_vars

(***************************************************************************)
(* Claims about the configuration name (SpecConfig).                       *)
(***************************************************************************)
\* the command line with its arguments in the order p
Permuted(argv, p) == [ i \in 1..Len(argv) |-> argv[p[i]] ]

\* the directory <workspaceRoot>/BUILD/<name>/<sub>
ConfigDir(name, sub) == Sl(Sl(Sl(workspaceRoot, buildDirName), name), sub)

\* the configuration name prepareGenerator put into info: the element of
\* info.buildFilesDir below <workspaceRoot>/BUILD
ConfigNameOfInfo ==
    SubSeq(info.buildFilesDir, Len(workspaceRoot) + Len(buildDirName) + 3,
           Len(info.buildFilesDir) - Len(buildFilesDirName) - 1)

\* the distinct flags of a command line
FlagSet(argv) == { FlagArgs(argv)[i] : i \in 1..Len(FlagArgs(argv)) }

\* C1: command lines whose build flags are permutations of each other get the
\* same configuration name, BUILD-<CRC-32 of the sorted flags joined with '#',
\* as 8 hexadecimal digits>, and so the same buildfiles/ and output/
\* directories, from prepareGenerator and from the earlier runBuild alike.
\* The CRC-32 values of "", "--a=1", "--a=1#--b=1" and "--a=1#--a=2#--b=1"
\* are those of the IEEE polynomial.
C1_PermutedFlagsSameConfig ==
    pc = "prepared" =>
        /\ \A p \in Permutations(1..Len(args)) :
               /\ buildConfigName(Permuted(args, p)) = ConfigNameOfInfo
               /\ runBuildConfigName(Permuted(args, p)) = ConfigNameOfInfo
               /\ runBuildBuildDir(Permuted(args, p)) = info.buildOutputDir
        /\ Len(ConfigNameOfInfo) = Len(buildDirName) + 9
        /\ info.buildFilesDir = ConfigDir(ConfigNameOfInfo, buildFilesDirName)
        /\ info.buildOutputDir = ConfigDir(ConfigNameOfInfo, outputDirName)
        /\ (FlagArgs(args) = << >> =>
               ConfigNameOfInfo = buildDirName \o
                   << "-", "0", "0", "0", "0", "0", "0", "0", "0" >>)
        /\ (FlagSet(args) = { << "-", "-", "a", "=", "1" >> } /\ Len(FlagArgs(args)) = 1 =>
               ConfigNameOfInfo = buildDirName \o
                   << "-", "D", "F", "0", "8", "8", "2", "D", "8" >>)
        /\ (FlagSet(args) = { << "-", "-", "a", "=", "1" >>, << "-", "-", "b", "=", "1" >> }
                /\ Len(FlagArgs(args)) = 2 =>
               ConfigNameOfInfo = buildDirName \o
                   << "-", "5", "D", "B", "C", "3", "A", "F", "5" >>)
        /\ (FlagSet(args) = FlagUniverse /\ Len(FlagArgs(args)) = 3 =>
               ConfigNameOfInfo = buildDirName \o
                   << "-", "B", "E", "F", "D", "5", "F", "B", "3" >>)

\* a run whose flags arrive unsorted: --b=1 before --a=1
C1_Witness ==
    /\ pc = "prepared"
    /\ FlagArgs(args) = << << "-", "-", "b", "=", "1" >>, << "-", "-", "a", "=", "1" >> >>
    /\ runBuildFlagArgs(args) = FlagArgs(args)
    /\ info.buildFlags = << << "-", "-", "a", "=", "1" >>, << "-", "-", "b", "=", "1" >> >>

\* C2: command lines with the same distinct flags, however often each is
\* repeated, get the same configuration name.
C2_RepeatedFlagsSameConfig ==
    pc = "prepared" =>
        \A other \in ArgLists(FlagUniverse, MaxFlags) :
            FlagSet(other) = FlagSet(args) =>
                /\ buildConfigName(other) = ConfigNameOfInfo
                /\ runBuildConfigName(other) = ConfigNameOfInfo

(***************************************************************************)
(* Claims about label normalisation (SpecNorm).                            *)
(***************************************************************************)
\* the one label argument c was normalised from <r>/a/b, r being the module
\* root util.GetModuleRootForPath finds for <r>/a/b/c
NormalizedCBelow(r) ==
    /\ pc = "prepared"
    /\ args = << << "c" >> >>
    /\ r \in moduleRoots
    /\ workingDir = PathJoin(r, << "a", "/", "b" >>)
    /\ GetModuleRootForPath(PathJoin(workingDir, << "c" >>), moduleRoots) = r

\* the last element of the path p
LastElement(p) == Split(p, "/")[Len(Split(p, "/"))]

\* the label both normalisations give the one argument of the command line
BothNormalizeTo(label) ==
    /\ info.targets = << label >>
    /\ runBuildTarget(args[1], workingDir, moduleRoots) = label

\* C3 as stated: the argument c, given in <moduleRoot>/a/b, is normalised to
\* the label a/b/c.
C3_RelativeToModuleRoot ==
    \A r \in UNION NormModuleRoots :
        NormalizedCBelow(r) => BothNormalizeTo(<< "a", "/", "b", "/", "c" >>)

\* C3, amended: the argument c, given in <moduleRoot>/a/b, is normalised to
\* the path relative to the parent directory of the module root,
\* <name of the module root directory>/a/b/c; it is a/b/c only when the
\* module root is the file system root, which is its own parent.
C3_RelativeToModuleRootParent ==
    \A r \in UNION NormModuleRoots :
        NormalizedCBelow(r) =>
            IF r = << "/" >>
            THEN BothNormalizeTo(<< "a", "/", "b", "/", "c" >>)
            ELSE BothNormalizeTo(LastElement(r) \o << "/", "a", "/", "b", "/", "c" >>)

\* c given in /w/DEPS/m/a/b, module root /w/DEPS/m: the label is m/a/b/c
C3_Witness ==
    /\ NormalizedCBelow(pathM)
    /\ BothNormalizeTo(<< "m", "/", "a", "/", "b", "/", "c" >>)

\* k separators
Slashes(k) == [ i \in 1..k |-> "/" ]

\* label is arg without its leading separators
LeadingSeparatorsRemoved(arg, label) ==
    /\ \E k \in 0..Len(arg) : arg = Slashes(k) \o label
    /\ ~HasPrefix(label, << "/" >>)

\* the one argument of the command line begins with the marker //
RootedArg == Len(args) = 1 /\ HasPrefix(args[1], << "/", "/" >>)

\* what C4 says of every argument that begins with //, but for the
\* trailing separator
RootedArgNormalized ==
    /\ failure # "Could not identify module root"
    /\ pc # "start" =>
           /\ Len(info.targets) = 1
           /\ LeadingSeparatorsRemoved(args[1], info.targets[1])
           /\ \A wd \in NormWorkingDirs, roots \in NormModuleRoots :
                  /\ ~normalizeTargetFatal(args[1], wd, roots)
                  /\ normalizeTarget(args[1], wd, roots) = info.targets[1]
           /\ (args[1] = << "/", "/", "a", "/", "b", "/", "c" >> =>
                   info.targets[1] = << "a", "/", "b", "/", "c" >>)

\* C4 as stated: an argument that begins with // is normalised to itself
\* without its leading separators, whatever the working directory and the
\* module roots are, //a/b/c to a/b/c, and a trailing / of the argument is
\* a trailing / of the label.
C4_RootedArgKeepsTrailingSlash ==
    RootedArg =>
        /\ RootedArgNormalized
        /\ (pc # "start" /\ HasSuffix(args[1], << "/" >>) =>
                HasSuffix(info.targets[1], << "/" >>))

\* C4, amended: an argument that begins with // is normalised to itself
\* without its leading separators, whatever the working directory and the
\* module roots are, //a/b/c to a/b/c; a trailing / of the argument is a
\* trailing / of the label when the argument has a character other than /,
\* and an argument of separators only gives the empty label.
C4_RootedArgNormalized ==
    RootedArg =>
        /\ RootedArgNormalized
        /\ (pc # "start" /\ HasSuffix(args[1], << "/" >>) =>
                IF \E i \in 1..Len(args[1]) : args[1][i] # "/"
                THEN HasSuffix(info.targets[1], << "/" >>)
                ELSE info.targets[1] = << >>)

\* //a/b/ given outside every module: the label is a/b/
C4_Witness ==
    /\ pc = "prepared"
    /\ args = << << "/", "/", "a", "/", "b", "/" >> >>
    /\ workingDir = depsDir
    /\ moduleRoots = { pathM }
    /\ info.targets = << << "a", "/", "b", "/" >> >>

(***************************************************************************)
(* Claims about resolution and the build (Spec).                           *)
(***************************************************************************)
\* the positions of the trace at which the generator ran in mode "ninja",
\* build.ninja was written, the executor was started
GraphRuns == { i \in 1..Len(trace) : trace[i].op = "go run" /\ trace[i].mode = "ninja" }

GraphWrites == { i \in 1..Len(trace) : trace[i].op = "write" }

ExecutorRuns == { i \in 1..Len(trace) : trace[i].op = "ninja" }

\* both discovery runs have succeeded: the discovered sets are known
Discovered ==
    \E i, j \in 1..Len(trace) :
        /\ trace[i].op = "go run" /\ trace[i].mode = "targets" /\ trace[i].ok
        /\ trace[j].op = "go run" /\ trace[j].mode = "flags" /\ trace[j].ok

\* the loops over the requested labels and the flags are behind the run
PastResolution == Discovered /\ pc # "haveFlags"

\* s begins with prefix
StartsWith(s, prefix) ==
    /\ Len(prefix) <= Len(s)
    /\ \A i \in 1..Len(prefix) : s[i] = prefix[i]

\* label ends in "..."
IsPattern(label) ==
    /\ Len(label) >= 3
    /\ \A i \in (Len(label) - 2)..Len(label) : label[i] = "."

\* the discovered targets that begin with the pattern less its "..."
Matches(pattern) ==
    { a \in availableTargets : StartsWith(a, SubSeq(pattern, 1, Len(pattern) - 3)) }

\* the labels the command line asks for, after normalisation
Requested == { info.targets[i] : i \in 1..Len(info.targets) }

\* the executor's arguments without the -v of a verbose run
ExecutorTargets(e) ==
    IF e.args # << >> /\ e.args[1] = << "-", "v" >> THEN Tail(e.args) ELSE e.args

ExecutorTargetSet(e) == { ExecutorTargets(e)[i] : i \in 1..Len(ExecutorTargets(e)) }

\* C5: the executor is asked, for a requested pattern p..., for every
\* discovered target that begins with p, and for nothing that is neither
\* such a match nor a label requested exactly; and an invocation with one
\* pattern that matches no discovered target ends fatally without a graph
\* run, a write or an executor run, whatever its other labels match.
C5_WildcardExpansion ==
    /\ \A i \in ExecutorRuns :
           /\ \A p \in Requested : IsPattern(p) => Matches(p) \subseteq ExecutorTargetSet(trace[i])
           /\ \A a \in ExecutorTargetSet(trace[i]) :
                  \/ a \in Requested /\ ~IsPattern(a)
                  \/ \E p \in Requested : IsPattern(p) /\ a \in Matches(p)
    /\ (PastResolution /\ \E p \in Requested : IsPattern(p) /\ Matches(p) = {}) =>
           /\ pc = "fatal"
           /\ GraphRuns \cup GraphWrites \cup ExecutorRuns = {}

\* //m/... beside the exact label m/p/x: the executor gets x, y and z
C5_Witness ==
    /\ pc = "done"
    /\ info.targets = << << "m", "/", "p", "/", "x" >>, << "m", "/", ".", ".", "." >> >>
    /\ \E i \in ExecutorRuns :
           ExecutorTargetSet(trace[i]) =
               { << "m", "/", "p", "/", "x" >>, << "m", "/", "p", "/", "y" >>,
                 << "m", "/", "q", "/", "z" >> }

\* the text of flag before its first '=' is a discovered flag name
FlagNameDiscovered(flag) ==
    \E k \in 1..Len(flag) :
        /\ flag[k] = "="
        /\ \A j \in 1..(k - 1) : flag[j] # "="
        /\ SubSeq(flag, 1, k - 1) \in availableFlags

\* every exact label is discovered, every pattern matches, every flag name
\* is discovered
AllResolve ==
    /\ \A t \in Requested : IF IsPattern(t) THEN Matches(t) # {} ELSE t \in availableTargets
    /\ \A i \in 1..Len(info.buildFlags) : FlagNameDiscovered(info.buildFlags[i])

\* C6: with at least one target argument, the graph run of the generator,
\* the write of build.ninja and the executor run happen only if every exact
\* label is a discovered target, every pattern matches a discovered target
\* and every flag's name, the text before its first '=', is a discovered
\* flag; otherwise the invocation is fatal with none of the three done.
C6_BuildOnlyIfAllResolve ==
    TargetArgs(args) # << >> =>
        /\ GraphRuns \cup GraphWrites \cup ExecutorRuns # {} => Discovered /\ AllResolve
        /\ pc \in { "resolved", "generated", "done" } => Discovered /\ AllResolve
        /\ (PastResolution /\ ~AllResolve) =>
               /\ pc = "fatal"
               /\ GraphRuns \cup GraphWrites \cup ExecutorRuns = {}

\* m/p/x built with g=1=2 where g is declared
C6_Witness ==
    /\ pc = "done"
    /\ info.targets = << << "m", "/", "p", "/", "x" >> >>
    /\ info.buildFlags = << << "g", "=", "1", "=", "2" >> >>
    /\ ExecutorRuns # {}

\* the rejected case of C6: g=1=2 where only f is declared
C6_WitnessFatal ==
    /\ pc = "fatal"
    /\ failure = "Flag does not exist"
    /\ info.buildFlags = << << "g", "=", "1", "=", "2" >> >>

\* C7: without a target argument the generator is never run in mode
\* "ninja", build.ninja is not written and the executor is not run, and
\* the invocation that returns has printed the discovered targets and flags.
C7_NoTargetsListsOnly ==
    TargetArgs(args) = << >> =>
        /\ GraphRuns \cup GraphWrites \cup ExecutorRuns = {}
        /\ outputTree = StaleOutput(args)
        /\ pc \notin { "resolved", "generated" }
        /\ pc = "done" =>
               /\ printed.listed
               /\ printed.targets = StagedTargets(stagingTree, buildFilesDir(args))
               /\ printed.flags = declaredFlags

\* flags only: the listing of m/p/x, m/p/y, m/q/z and of f
C7_Witness ==
    /\ pc = "done"
    /\ args = << << "f", "=", "1" >> >>
    /\ printed.listed
    /\ Cardinality(printed.targets) = 3
    /\ printed.flags = { << "f" >> }

\* the steps of an invocation, by kind
StepKinds == [ i \in 1..Len(trace) |-> << trace[i].op, trace[i].mode >> ]

\* C8: an invocation that has started the executor has done so once, after
\* exactly these steps in this order: staging (buildfiles/ removed, files
\* staged, main.go written), the generator in mode "targets", in mode
\* "flags", once and successfully in mode "ninja", the write of that run's
\* standard output, unchanged, to build.ninja in the configuration's output
\* directory, the executor in that directory; for the one label of a
\* workspace with one target and no flags the executor is asked for that
\* label only.
C8_OneOrderedBuild ==
    ExecutorRuns # {} =>
        /\ StepKinds = << << "remove", "" >>, << "stage", "" >>, << "main.go", "" >>,
                          << "go run", "targets" >>, << "go run", "flags" >>,
                          << "go run", "ninja" >>, << "write", "" >>, << "ninja", "" >> >>
        /\ \A i \in 1..7 : trace[i].ok
        /\ \A i \in 4..6 : trace[i].dir = buildFilesDir(args)
        /\ trace[7].out = trace[6].out
        /\ trace[7].dir = Sl(buildOutputDir(args), ninjaFileName)
        /\ [ path |-> Sl(buildOutputDir(args), ninjaFileName), content |-> trace[6].out ]
               \in outputTree
        /\ trace[8].dir = buildOutputDir(args)
        /\ (modules = WorkspaceX /\ args = << << "/", "/", "m", "/", "p", "/", "x" >> >>) =>
               ExecutorTargets(trace[8]) = << << "m", "/", "p", "/", "x" >> >>

\* one module, one definition file, one target, no flags: built
C8_Witness ==
    /\ pc = "done"
    /\ modules = WorkspaceX
    /\ args = << << "/", "/", "m", "/", "p", "/", "x" >> >>
    /\ ExecutorRuns = { 8 }
    /\ trace[6].out = "graph2"

\* C9: the executor's arguments, but for a leading -v, name no label twice,
\* and name exactly the labels requested exactly and the matches of the
\* requested patterns.
C9_ExecutorTargetsUnique ==
    \A e \in ExecutorRuns :
        /\ \A i, j \in 1..Len(ExecutorTargets(trace[e])) :
               ExecutorTargets(trace[e])[i] = ExecutorTargets(trace[e])[j] => i = j
        /\ ExecutorTargetSet(trace[e]) =
               UNION { IF IsPattern(t) THEN Matches(t) ELSE { t } : t \in Requested }
        /\ (verbose <=> trace[e].args # << >> /\ trace[e].args[1] = << "-", "v" >>)

\* m/p/x named and matched by //m/p/...: passed once, beside m/p/y
C9_Witness ==
    /\ pc = "done"
    /\ verbose
    /\ info.targets = << << "m", "/", "p", "/", "x" >>, << "m", "/", "p", "/", ".", ".", "." >> >>
    /\ \E e \in ExecutorRuns : Len(trace[e].args) = 3

(***************************************************************************)
(* Claims about staging (SpecStage).                                       *)
(***************************************************************************)
\* the definition file m/p/BUILD.go of the workspace, as parsed
DefinitionFile ==
    LET m == CHOOSE mod \in modules : mod.name = << "m" >>
    IN  m.entries[CHOOSE i \in 1..Len(m.entries) :
                      m.entries[i].path = Sl(Sl(pathM, << "p" >>), buildFileName)]

\* decl is neither an import nor a var declaration, or a var declaration
\* that names _
Rejected(decl) ==
    \/ decl.tok \notin { "import", "var" }
    \/ \E i \in 1..Len(decl.specs) :
           \E j \in 1..Len(decl.specs[i].names) : decl.specs[i].names[j] = << "_" >>

\* the names the var declarations declare, in declaration order
RECURSIVE DeclaredNames(_)
DeclaredNames(decls) ==
    IF decls = << >> THEN << >>
    ELSE (IF Head(decls).tok = "var" /\ Head(decls).specs # << >>
          THEN Head(decls).specs[1].names ELSE << >>)
             \o DeclaredNames(Tail(decls))

\* what staging has written for the definition file
StagedFromDefinitionFile == { f \in stagingTree : f.source = DefinitionFile.path }

\* C10: a definition file with a declaration that is neither an import nor
\* a var declaration, or with a var declaration naming _, ends the
\* invocation in prepareGenerator: nothing is staged for it and the
\* generator is not run; a file is staged only if none of its declarations
\* is of that kind, and then with the declared names, in order, as targets.
C10_InvalidDeclarationsFatal ==
    (pc # "start" /\ DefinitionFile.ast.ok) =>
        /\ (\E i \in 1..Len(DefinitionFile.ast.decls) : Rejected(DefinitionFile.ast.decls[i])) =>
               /\ pc = "fatal"
               /\ failure \in { "contains invalid declarations",
                                "contains anonymous target declarations" }
               /\ StagedFromDefinitionFile = {}
               /\ \A i \in 1..Len(trace) : trace[i].op # "go run"
        /\ StagedFromDefinitionFile # {} =>
               /\ \A i \in 1..Len(DefinitionFile.ast.decls) : ~Rejected(DefinitionFile.ast.decls[i])
               /\ \E f \in StagedFromDefinitionFile :
                      f.kind = "init" /\ f.targets = DeclaredNames(DefinitionFile.ast.decls)

(***************************************************************************)
(* Claims about the build directory and the generator runs.                *)
(***************************************************************************)
\* the files of the modules of the workspace
ModuleFiles ==
    UNION { { mod.entries[i].path : i \in { j \in 1..Len(mod.entries) : ~mod.entries[j].isDir } } :
            mod \in modules }

\* prepareGenerator has come to the staging of the modules
StagingStarted == \E i \in 1..Len(trace) : trace[i].op = "stage"

\* C11: buildfiles/ is removed before anything is staged, and once staging
\* has started every definition file, glue file and rule file below it comes
\* from a file the modules have now; what an earlier invocation staged from
\* files that are gone is gone too.
C11_StagingTreeRegenerated ==
    StagingStarted =>
        /\ trace[1].op = "remove" /\ trace[1].dir = buildFilesDir(args)
        /\ \A i \in 1..Len(trace) : trace[i].op \in { "stage", "main.go" } => i > 1
        /\ \A f \in stagingTree :
               /\ Encloses(buildFilesDir(args), f.path)
               /\ f.kind \in { "init", "build", "rule" } => f.source \in ModuleFiles
        /\ stagingTree \cap StaleStaging(args) = {}
        /\ pc # "fatal" =>
               /\ \E f \in stagingTree :
                      f.kind = "main" /\ f.path = Sl(buildFilesDir(args), mainFileName)
               /\ \A mod \in modules :
                      \E f \in stagingTree :
                          f.kind = "mod" /\ Encloses(Sl(buildFilesDir(args), mod.name), f.path)

\* the invocation has staged m/p/BUILD.go and RULES/r.go, and the three
\* files of the earlier invocation are not there
C11_Witness ==
    /\ pc = "prepared"
    /\ \E f \in stagingTree :
           f.kind = "init" /\ f.source = Sl(Sl(pathM, << "p" >>), buildFileName)
    /\ \E f \in stagingTree : f.kind = "rule"
    /\ \A f \in stagingTree : f.source # Sl(Sl(pathM, << "o" >>), buildFileName)

\* what the earlier invocation left below output/ is still there
OutputKept == StaleOutput(args) \subseteq outputTree

\* C12 as stated: when the invocation starts staging, nothing an earlier
\* invocation wrote below the directory of the configuration, in buildfiles/
\* or in output/, is there any more.
C12_BuildDirRecreated ==
    (StagingStarted /\ GraphWrites = {}) =>
        /\ stagingTree \cap StaleStaging(args) = {}
        /\ outputTree \cap StaleOutput(args) = {}

\* C12, amended: at the start of an invocation buildfiles/ alone is deleted
\* and staged anew; output/ is kept, with the build.ninja and the build
\* outputs of the earlier invocation, until runNinja writes build.ninja
\* again, and that write replaces build.ninja only.
C12_OnlyBuildFilesRecreated ==
    StagingStarted =>
        /\ stagingTree \cap StaleStaging(args) = {}
        /\ GraphWrites = {} => outputTree = StaleOutput(args)
        /\ GraphWrites # {} =>
               /\ Cardinality(outputTree) = Cardinality(StaleOutput(args))
               /\ \A o \in StaleOutput(args) :
                      o.path # Sl(buildOutputDir(args), ninjaFileName) => o \in outputTree

\* staging is done, and the build.ninja and the x.o of the earlier
\* invocation are where they were
C12_Witness ==
    /\ pc = "prepared"
    /\ stagingTree \cap StaleStaging(args) = {}
    /\ OutputKept
    /\ Cardinality(outputTree) = 2

\* the positions of the trace at which the generator exited with an error
FailedRuns == { i \in 1..Len(trace) : trace[i].op = "go run" /\ ~trace[i].ok }

\* the generator runs of the invocation, in order
GeneratorRuns == SelectSeq(trace, LAMBDA e : e.op = "go run")

\* their modes
RunModes == [ i \in 1..Len(GeneratorRuns) |-> GeneratorRuns[i].mode ]

\* C13: a generator run that exits with an error, in mode "targets",
\* "flags" or "ninja", is the last step of the invocation, which is fatal:
\* no generator run follows, build.ninja and the rest of output/ are as the
\* invocation found them, the executor is not run; and the captured standard
\* error of every generator run, failed or not, has been printed.
C13_GeneratorErrorFatal ==
    /\ \A i \in FailedRuns :
           /\ i = Len(trace)
           /\ pc = "fatal"
           /\ failure = "Failed to run generator"
           /\ GraphWrites = {}
           /\ ExecutorRuns = {}
           /\ outputTree = StaleOutput(args)
    /\ printed.stderr = RunModes
    /\ pc = "fatal" /\ failure = "Failed to run generator" => FailedRuns # {}

\* the run in mode "ninja" fails after both discovery runs: three standard
\* errors printed, the build.ninja of the earlier invocation untouched
C13_Witness ==
    /\ pc = "fatal"
    /\ FailedRuns = { 6 }
    /\ trace[6].mode = "ninja"
    /\ printed.stderr = << "targets", "flags", "ninja" >>
    /\ [ path |-> Sl(buildOutputDir(args), ninjaFileName), content |-> "stale" ] \in outputTree

====
